---- MODULE Spec2Model ----
(***************************************************************************)
(* Model of the WorkBoard storage layer (src/storage.py) over the ORM      *)
(* schema of src/database.py and the request models of src/models.py.      *)
(*                                                                         *)
(* Every public operation of WorkBoardStorage runs inside get_session():   *)
(* it commits on normal return and rolls back on any exception, so under   *)
(* Spec one operation is one atomic step.  Each operation is written as an *)
(* operator from the database before the call to the database after it;    *)
(* the actions apply these operators to the current state.  The database   *)
(* outlives the process (Base.metadata.create_all keeps existing tables),  *)
(* so Init draws the database from Seeds, each built from the empty        *)
(* database by the operators themselves.                                   *)
(***************************************************************************)
EXTENDS Integers, FiniteSets, Sequences, TLC

\* ------------------------------------------------------------------ bounds
MaxOps == 2         \* operations called after Init

\* ------------------------------------------------------------------ values
NoneStr == "None"       \* Python None in a text / enum column
NoneInt == -1           \* Python None in an integer, id or datetime column
NoId    == 0            \* an id that names no row of any table

Actors == {"u1"}

\* Query(50, ge=1, le=100): the largest limit the endpoint accepts
MaxLimit == 100

VARIABLES
    boards,       \* table boards:        id -> row
    lists,        \* table lists:         id -> row
    cards,        \* table cards:         id -> row
    comments,     \* table comments:      id -> row
    activities,   \* table activity_logs: id -> row
    nextId,       \* next fresh id per table (generate_uuid never repeats)
    clock,        \* value the next datetime.utcnow() returns
    fkEnforced,   \* whether the engine behind database_url enforces foreign keys
    positional,   \* boards whose lists were positioned, repositioned or deleted by hand
    last,         \* the operation that produced this state, and its result
    ops,          \* operations called since Init
    tx            \* the open database transaction of each session, and what the
                  \* committed create_list calls counted

vars == <<boards, lists, cards, comments, activities, nextId, clock,
          fkEnforced, positional, last, ops, tx>>

store == <<boards, lists, cards, comments, activities>>

\* the database and its bookkeeping as one value
State ==
    [boards |-> boards, lists |-> lists, cards |-> cards, comments |-> comments,
     activities |-> activities, nextId |-> nextId, clock |-> clock,
     fkEnforced |-> fkEnforced, positional |-> positional, last |-> last]

\* ------------------------------------------------------------------ queries
\* session.query(T).filter(T.id == id).first() returned a row
Found(table, id) == id \in DOMAIN table

ListsOfBoard(ls, b)    == {l \in DOMAIN ls : ls[l].board_id = b}
CardsOfList(cs, l)     == {c \in DOMAIN cs : cs[c].list_id = l}
CommentsOfCard(ms, c)  == {m \in DOMAIN ms : ms[m].card_id = c}
ActsOfBoard(as, b)     == {a \in DOMAIN as : as[a].board_id = b}

\* table with one more row
Insert(table, id, row) ==
    [i \in DOMAIN table \cup {id} |-> IF i = id THEN row ELSE table[i]]

\* table without the rows in ids
Remove(table, ids) == [i \in DOMAIN table \ ids |-> table[i]]

\* ------------------------------------------------------------------ helpers
\* ApplyUpdate with model_dump() in place of model_dump(exclude_unset=True) for
\* the archived flag: a field the caller left out goes back to its default
ApplyUpdateResetArchived(row, update_data) ==
    [f \in DOMAIN row |->
        IF f \in DOMAIN update_data THEN update_data[f]
        ELSE IF f = "is_archived" THEN FALSE ELSE row[f]]

\* update_data = x_update.model_dump(exclude_unset=True);
\* for key, value in update_data.items(): setattr(row, key, value)
ApplyUpdate(row, update_data) ==
    [f \in DOMAIN row |-> IF f \in DOMAIN update_data THEN update_data[f] ELSE row[f]]

\* Touch that stamps the creation column as well
TouchCreated(before, after, now) ==
    IF after = before THEN after
    ELSE [after EXCEPT !.created_at = now, !.updated_at = now]

\* updated_at = Column(..., onupdate=datetime.utcnow): the flush writes an UPDATE,
\* and with it the new updated_at, only for a row with a changed column
Touch(before, after, now) ==
    IF after = before THEN after ELSE [after EXCEPT !.updated_at = now]

\* NewPosition that numbers the positions from 1
NewPositionOneBased(position, max_pos) ==
    IF position # 0 THEN position ELSE max_pos + 1

\* NewPosition that always appends, whatever the caller supplied
NewPositionAppendOnly(position, max_pos) == max_pos

\* NewPosition that never counts the siblings
NewPositionAsGiven(position, max_pos) == position

\* position=data.position if data.position else max_pos
NewPosition(position, max_pos) == IF position # 0 THEN position ELSE max_pos

\* nullable=False columns, checked by the engine when the row is flushed
BoardNotNull(r) == r.name # NoneStr /\ r.owner_id # NoneStr
ListNotNull(r)  == r.name # NoneStr /\ r.position # NoneInt /\ r.board_id # NoneInt
CardNotNull(r)  == /\ r.title # NoneStr /\ r.priority # NoneStr /\ r.status # NoneStr
                   /\ r.position # NoneInt /\ r.list_id # NoneInt

\* ForeignKey(...) columns, checked only by an engine that enforces them
FkOK(enforced, parents, id) == enforced => id \in DOMAIN parents

\* LogActivity without session.add(activity)
LogActivityNotAdded(acts, id, board_id, user_id, activity_type, description, now) ==
    acts

\* WorkBoardStorage._log_activity: session.add(ActivityLog(...))
LogActivity(acts, id, board_id, user_id, activity_type, description, now) ==
    Insert(acts, id, [board_id |-> board_id, user_id |-> user_id,
                      activity_type |-> activity_type,
                      description |-> description, created_at |-> now])

\* CardActivityType with the two tests in the other order
CardActivityTypeAssigneeFirst(update_data) ==
    IF "assigned_to" \in DOMAIN update_data THEN "card_assigned"
    ELSE IF "list_id" \in DOMAIN update_data THEN "card_moved"
    ELSE "card_updated"

\* activity_type chosen by update_card
CardActivityType(update_data) ==
    IF "list_id" \in DOMAIN update_data THEN "card_moved"
    ELSE IF "assigned_to" \in DOMAIN update_data THEN "card_assigned"
    ELSE "card_updated"

\* rows reached from a board, a list or a card through the relationships
\* declared cascade="all, delete-orphan"
CascadeLists(s, b)     == ListsOfBoard(s.lists, b)
CascadeCards(s, ls)    == {c \in DOMAIN s.cards : s.cards[c].list_id \in ls}

\* CascadeComments of a Card without cascade="all, delete-orphan" on its comments
CascadeCommentsNone(s, cs) == {}

\* Card.comments, cascade="all, delete-orphan"
CascadeComments(s, cs) == {m \in DOMAIN s.comments : s.comments[m].card_id \in cs}

\* CascadeActs that forgets which board is deleted
CascadeActsAll(s, b) == DOMAIN s.activities

\* CascadeActs with Board.activities declared without a cascade
CascadeActsNone(s, b) == {}

CascadeActs(s, b)      == ActsOfBoard(s.activities, b)

\* what an operation leaves in last
Done(op, res, id, arg, sup, pos) ==
    [op |-> op, res |-> res, id |-> id, arg |-> arg, sup |-> sup, pos |-> pos,
     user |-> NoneStr, page |-> <<>>, rows |-> <<>>]

\* the return of a query that yields rows: the ids of the rows, in the order returned
Rows(s, op, id, user, page, rows) ==
    [s EXCEPT !.last = [Done(op, "ok", id, NoneInt, {}, NoneInt)
                          EXCEPT !.user = user, !.page = page, !.rows = rows]]

\* session.rollback(): nothing the operation wrote is kept, the exception is raised
Rollback(s, op, res, id, arg) ==
    [s EXCEPT !.last = Done(op, res, id, arg, {}, NoneInt)]

\* NotFound with the activity row written before the lookup
NotFoundLogged(s, op, res, id) ==
    [s EXCEPT !.activities = Insert(@, s.nextId.act,
                                 [board_id |-> id, user_id |-> "u1", activity_type |-> op,
                                  description |-> <<op, "None">>, created_at |-> s.clock]),
              !.nextId = [@ EXCEPT !.act = @ + 1],
              !.last = Done(op, res, id, NoneInt, {}, NoneInt)]

\* update_* and delete_*: "if not row: return None" / "return False", before any write
NotFound(s, op, res, id) == Rollback(s, op, res, id, NoneInt)

\* MissingParent that returns None where the code raises
MissingParentReturnsNone(s, op, arg) == Rollback(s, op, "None", NoneInt, arg)

\* create_card, create_comment: "if not parent: raise ValueError(...)"
MissingParent(s, op, arg) == Rollback(s, op, "ValueError", NoneInt, arg)

\* session.commit() of an operation that wrote one activity row at s.clock.
\* datetime.utcnow() has microsecond resolution and every operation is a database
\* transaction of its own, so the next operation reads a later instant.
Commit(s, t, done) ==
    [s EXCEPT !.nextId = IF t = "act" THEN [@ EXCEPT !.act = @ + 1]
                         ELSE [@ EXCEPT ![t] = @ + 1, !.act = @ + 1],
              !.clock = @ + 1,
              !.last = done]

\* ------------------------------------------------------------------ boards
create_board(s, board_data) ==
    LET id == s.nextId.board
        row == [name |-> board_data.name, description |-> board_data.description,
                color |-> board_data.color, owner_id |-> board_data.owner_id,
                is_archived |-> FALSE, created_at |-> s.clock, updated_at |-> s.clock]
        w == [s EXCEPT !.boards = Insert(@, id, row),
                       !.activities = LogActivity(@, s.nextId.act, id,
                                          board_data.owner_id, "board_created",
                                          <<"Created board", board_data.name>>, s.clock)]
    IN  Commit(w, "board", Done("create_board", "ok", id, NoneInt, {}, NoneInt))

update_board(s, board_id, board_update, user_id) ==
    IF ~Found(s.boards, board_id)
    THEN NotFound(s, "update_board", "None", board_id)
    ELSE LET row == Touch(s.boards[board_id],
                          ApplyUpdate(s.boards[board_id], board_update), s.clock)
             w == [s EXCEPT !.boards[board_id] = row,
                            !.activities = LogActivity(@, s.nextId.act, board_id,
                                               user_id, "board_updated",
                                               <<"Updated board", row.name>>, s.clock)]
         IN  IF ~BoardNotNull(row)
             THEN Rollback(s, "update_board", "error", board_id, NoneInt)
             ELSE Commit(w, "act", Done("update_board", "ok", board_id, NoneInt,
                                        DOMAIN board_update, NoneInt))

delete_board(s, board_id) ==
    IF ~Found(s.boards, board_id)
    THEN NotFound(s, "delete_board", "False", board_id)
    ELSE LET ls == CascadeLists(s, board_id)
             cs == CascadeCards(s, ls)
             ms == CascadeComments(s, cs)
         IN  [s EXCEPT !.boards = Remove(@, {board_id}),
                       !.lists = Remove(@, ls),
                       !.cards = Remove(@, cs),
                       !.comments = Remove(@, ms),
                       !.activities = Remove(@, CascadeActs(s, board_id)),
                       !.last = Done("delete_board", "True", board_id, NoneInt, {},
                                     NoneInt)]

\* ------------------------------------------------------------------ lists
create_list(s, list_data, user_id) ==
    LET id == s.nextId.list
        max_pos == Cardinality(ListsOfBoard(s.lists, list_data.board_id))
        row == [name |-> list_data.name,
                position |-> NewPosition(list_data.position, max_pos),
                board_id |-> list_data.board_id, is_archived |-> FALSE,
                created_at |-> s.clock, updated_at |-> s.clock]
        w == [s EXCEPT !.lists = Insert(@, id, row),
                       !.activities = LogActivity(@, s.nextId.act, list_data.board_id,
                                          user_id, "list_created",
                                          <<"Created list", list_data.name>>, s.clock),
                       !.positional = IF list_data.position # 0
                                      THEN @ \cup {list_data.board_id} ELSE @]
    IN  IF ~FkOK(s.fkEnforced, s.boards, list_data.board_id)
        THEN Rollback(s, "create_list", "error", NoneInt, list_data.board_id)
        ELSE Commit(w, "list", Done("create_list", "ok", id, list_data.board_id, {},
                                    list_data.position))

update_list(s, list_id, list_update, user_id) ==
    IF ~Found(s.lists, list_id)
    THEN NotFound(s, "update_list", "None", list_id)
    ELSE LET row == Touch(s.lists[list_id],
                          ApplyUpdate(s.lists[list_id], list_update), s.clock)
             w == [s EXCEPT !.lists[list_id] = row,
                            !.activities = LogActivity(@, s.nextId.act, row.board_id,
                                               user_id, "list_updated",
                                               <<"Updated list", row.name>>, s.clock),
                            !.positional = IF "position" \in DOMAIN list_update
                                           THEN @ \cup {row.board_id} ELSE @]
         IN  IF ~ListNotNull(row)
             THEN Rollback(s, "update_list", "error", list_id, NoneInt)
             ELSE Commit(w, "act", Done("update_list", "ok", list_id, NoneInt,
                                        DOMAIN list_update, NoneInt))

\* delete_list that closes the gap: the siblings after the list move up by one
delete_list_renumbered(s, list_id) ==
    IF ~Found(s.lists, list_id)
    THEN NotFound(s, "delete_list", "False", list_id)
    ELSE LET cs == CascadeCards(s, {list_id})
             ms == CascadeComments(s, cs)
             gone == s.lists[list_id]
             kept == Remove(s.lists, {list_id})
         IN  [s EXCEPT !.lists = [l \in DOMAIN kept |->
                                     IF /\ kept[l].board_id = gone.board_id
                                        /\ kept[l].position > gone.position
                                     THEN [kept[l] EXCEPT !.position = @ - 1]
                                     ELSE kept[l]],
                       !.cards = Remove(@, cs),
                       !.comments = Remove(@, ms),
                       !.positional = @ \cup {s.lists[list_id].board_id},
                       !.last = Done("delete_list", "True", list_id, NoneInt, {},
                                     NoneInt)]

delete_list(s, list_id) ==
    IF ~Found(s.lists, list_id)
    THEN NotFound(s, "delete_list", "False", list_id)
    ELSE LET cs == CascadeCards(s, {list_id})
             ms == CascadeComments(s, cs)
         IN  [s EXCEPT !.lists = Remove(@, {list_id}),
                       !.cards = Remove(@, cs),
                       !.comments = Remove(@, ms),
                       !.positional = @ \cup {s.lists[list_id].board_id},
                       !.last = Done("delete_list", "True", list_id, NoneInt, {},
                                     NoneInt)]

\* ------------------------------------------------------------------ cards
\* CardBoard with lst read after the update is applied, when the new list exists
CardBoardAfter(s, before, after) ==
    IF Found(s.lists, after.list_id) THEN s.lists[after.list_id].board_id
    ELSE s.lists[before.list_id].board_id

\* lst = session.query(DBList).filter(DBList.id == card.list_id).first(), read
\* before the update is applied (before: the card as read, after: as flushed);
\* lst.board_id raises when lst is None
CardBoard(s, before, after) == s.lists[before.list_id].board_id

create_card(s, card_data, user_id) ==
    IF ~Found(s.lists, card_data.list_id)
    THEN MissingParent(s, "create_card", card_data.list_id)
    ELSE LET id == s.nextId.card
             lst == s.lists[card_data.list_id]
             max_pos == Cardinality(CardsOfList(s.cards, card_data.list_id))
             row == [title |-> card_data.title, description |-> card_data.description,
                     priority |-> card_data.priority, status |-> card_data.status,
                     position |-> NewPosition(card_data.position, max_pos),
                     due_date |-> card_data.due_date, list_id |-> card_data.list_id,
                     assigned_to |-> card_data.assigned_to,
                     created_at |-> s.clock, updated_at |-> s.clock]
             w == [s EXCEPT !.cards = Insert(@, id, row),
                            !.activities = LogActivity(@, s.nextId.act, lst.board_id,
                                               user_id, "card_created",
                                               <<"Created card", card_data.title>>,
                                               s.clock)]
         IN  Commit(w, "card", Done("create_card", "ok", id, card_data.list_id, {},
                                    card_data.position))

update_card(s, card_id, card_update, user_id) ==
    IF ~Found(s.cards, card_id)
    THEN NotFound(s, "update_card", "None", card_id)
    ELSE LET card == s.cards[card_id]
             row == Touch(card, ApplyUpdate(card, card_update), s.clock)
             w == [s EXCEPT !.cards[card_id] = row,
                            !.activities = LogActivity(@, s.nextId.act,
                                               CardBoard(s, card, row), user_id,
                                               CardActivityType(card_update),
                                               <<"Updated card", row.title>>, s.clock)]
         IN  IF \/ ~CardNotNull(row)
                \/ ~FkOK(s.fkEnforced, s.lists, row.list_id)
                \/ ~Found(s.lists, card.list_id)
             THEN Rollback(s, "update_card", "error", card_id, NoneInt)
             ELSE Commit(w, "act", Done("update_card", "ok", card_id, NoneInt,
                                        DOMAIN card_update, NoneInt))

\* delete_card that writes an activity row the way create_card does
delete_card_logged(s, card_id) ==
    IF ~Found(s.cards, card_id)
    THEN NotFound(s, "delete_card", "False", card_id)
    ELSE LET gone == [s EXCEPT !.cards = Remove(@, {card_id}),
                               !.comments = Remove(@, CascadeComments(s, {card_id})),
                               !.last = Done("delete_card", "True", card_id, NoneInt,
                                             {}, NoneInt)]
         IN  IF ~Found(s.lists, s.cards[card_id].list_id) THEN gone
             ELSE [gone EXCEPT !.activities =
                                   LogActivity(@, s.nextId.act,
                                       s.lists[s.cards[card_id].list_id].board_id, "u1",
                                       "card_deleted",
                                       <<"Deleted card", s.cards[card_id].title>>,
                                       s.clock),
                               !.nextId = [@ EXCEPT !.act = @ + 1],
                               !.clock = @ + 1]

delete_card(s, card_id) ==
    IF ~Found(s.cards, card_id)
    THEN NotFound(s, "delete_card", "False", card_id)
    ELSE [s EXCEPT !.cards = Remove(@, {card_id}),
                   !.comments = Remove(@, CascadeComments(s, {card_id})),
                   !.last = Done("delete_card", "True", card_id, NoneInt, {}, NoneInt)]

\* ------------------------------------------------------------------ comments
create_comment(s, comment_data) ==
    IF ~Found(s.cards, comment_data.card_id)
    THEN MissingParent(s, "create_comment", comment_data.card_id)
    ELSE LET id == s.nextId.comment
             card == s.cards[comment_data.card_id]
             row == [content |-> comment_data.content, card_id |-> comment_data.card_id,
                     user_id |-> comment_data.user_id,
                     created_at |-> s.clock, updated_at |-> s.clock]
             w == [s EXCEPT !.comments = Insert(@, id, row),
                            !.activities = LogActivity(@, s.nextId.act,
                                               CardBoard(s, card, card), comment_data.user_id,
                                               "comment_added",
                                               <<"Added comment to card", card.title>>,
                                               s.clock)]
         IN  IF ~Found(s.lists, card.list_id)
             THEN Rollback(s, "create_comment", "error", NoneInt, comment_data.card_id)
             ELSE Commit(w, "comment", Done("create_comment", "ok", id,
                                            comment_data.card_id, {}, NoneInt))

delete_comment(s, comment_id) ==
    IF ~Found(s.comments, comment_id)
    THEN NotFound(s, "delete_comment", "False", comment_id)
    ELSE [s EXCEPT !.comments = Remove(@, {comment_id}),
                   !.last = Done("delete_comment", "True", comment_id, NoneInt, {},
                                 NoneInt)]

\* ------------------------------------------------------------------ reads
\* BoardResponse.model_validate(board) if board else None
BoardResult(bs, board_id) == IF Found(bs, board_id) THEN "ok" ELSE "None"

get_board(s, board_id) ==
    [s EXCEPT !.last = Done("get_board", BoardResult(s.boards, board_id), board_id,
                            NoneInt, {}, NoneInt)]

\* ListResponse.model_validate(lst) if lst else None
get_list(s, list_id) ==
    [s EXCEPT !.last = Done("get_list", BoardResult(s.lists, list_id), list_id,
                            NoneInt, {}, NoneInt)]

\* CardResponse.model_validate(card) if card else None
get_card(s, card_id) ==
    [s EXCEPT !.last = Done("get_card", BoardResult(s.cards, card_id), card_id,
                            NoneInt, {}, NoneInt)]

\* ORDER BY compares the sort keys column by column
KeyLess(a, b) ==
    \E i \in 1 .. Len(a) :
        /\ \A j \in 1 .. (i - 1) : a[j] = b[j]
        /\ a[i] < b[i]

\* query.order_by(...).all(): the ids in ids, rows of a table that has handed
\* out n ids, smallest key first
OrderBy(n, ids, key) ==
    SortSeq(SelectSeq([i \in 1 .. n |-> i], LAMBDA x : x \in ids),
            LAMBDA a, b : KeyLess(key[a], key[b]))

\* ORDER BY due_date of a NULL: SQLite sorts NULL before every value, PostgreSQL
\* after every value; the query asks for neither (no nullsfirst() / nullslast())
NullRank(nulls_last, due_date) ==
    IF due_date # NoneInt THEN 0 ELSE IF nulls_last THEN 1 ELSE -1

\* the two engines database_url names: SQLite neither enforces foreign keys nor
\* sorts NULL last, PostgreSQL does both
NullsLast(s) == s.fkEnforced

\* order_by(Card.due_date, Card.created_at)
CardKey(s, c) ==
    <<NullRank(NullsLast(s), s.cards[c].due_date), s.cards[c].due_date,
      s.cards[c].created_at>>

get_cards_by_user(s, user_id) ==
    LET mine == {c \in DOMAIN s.cards : s.cards[c].assigned_to = user_id}
    IN  Rows(s, "get_cards_by_user", NoneInt, user_id, <<>>,
             OrderBy(s.nextId.card - 1, mine, [c \in mine |-> CardKey(s, c)]))

\* order_by(ActivityLog.created_at.desc()): the later row first
ActKey(s, a) == <<0 - s.activities[a].created_at>>

\* Page that brings limit into the range the endpoint accepts
PageClamped(rows, limit, offset) ==
    SubSeq(rows, offset + 1,
           LET n == IF limit < 1 THEN 1 ELSE IF limit > MaxLimit THEN MaxLimit ELSE limit
           IN  IF offset + n < Len(rows) THEN offset + n ELSE Len(rows))

\* .limit(limit).offset(offset): skip offset rows, then keep limit rows
Page(rows, limit, offset) ==
    SubSeq(rows, offset + 1,
           IF offset + limit < Len(rows) THEN offset + limit ELSE Len(rows))

get_board_activities(s, board_id, limit, offset) ==
    LET mine == ActsOfBoard(s.activities, board_id)
    IN  Rows(s, "get_board_activities", board_id, NoneStr, <<limit, offset>>,
             Page(OrderBy(s.nextId.act - 1, mine, [a \in mine |-> ActKey(s, a)]),
                  limit, offset))

\* ------------------------------------------------------------------ inputs
NoUpdate == [f \in {} |-> NoneStr]

\* ids a caller can name: every id ever handed out by table t, and NoId
IdsOf(t) == 0 .. (nextId[t] - 1)

Positions == {0, 1}

Assignees == {NoneStr, "u1"}

BoardData == [name |-> "n1", description |-> NoneStr, color |-> "c1", owner_id |-> "u1"]

ListData(b, p) == [name |-> "n1", position |-> p, board_id |-> b]

DueDates == {NoneInt, 1}

Users == {"u1", "u2"}

CardData(l, p, a, d) ==
    [title |-> "n1", description |-> NoneStr, priority |-> "medium", status |-> "todo",
     position |-> p, due_date |-> d, list_id |-> l, assigned_to |-> a]

CommentData(c, u) == [content |-> "n1", card_id |-> c, user_id |-> u]

BoardCreates == {BoardData}

BoardUpdates ==
    { NoUpdate,
      [description |-> "d2"],
      [name |-> "n2", is_archived |-> TRUE],
      [name |-> NoneStr] }

ListCreates == {ListData(b, p) : b \in IdsOf("board"), p \in Positions}

ListUpdates ==
    { NoUpdate,
      [name |-> "n2"],
      [position |-> 0],
      [position |-> 1],
      [is_archived |-> TRUE],
      [position |-> NoneInt] }

CardCreates ==
    {CardData(l, p, a, d) :
        l \in IdsOf("list"), p \in Positions, a \in Assignees, d \in DueDates}

CardUpdates ==
    { NoUpdate, [title |-> "n2"], [position |-> 1], [assigned_to |-> "u2"],
      [status |-> NoneStr], [list_id |-> NoneInt], [due_date |-> 2] }
    \cup {[list_id |-> l] : l \in IdsOf("list")}
    \cup {[list_id |-> l, assigned_to |-> "u2"] : l \in IdsOf("list")}

CommentCreates == {CommentData(c, u) : c \in IdsOf("card"), u \in Actors}

\* <<limit, offset>> as passed to the store: inside and outside the ranges the
\* endpoint accepts
Pages == {<<2, 0>>, <<2, 1>>, <<0, 0>>, <<MaxLimit + 1, 0>>}

\* sessions open at the same time: one per request being served
Sessions == {1, 2}

\* a session with no transaction open
Idle == [phase |-> "idle", base |-> <<>>, r |-> <<>>, seen |-> {}]

\* ------------------------------------------------------------------ Init
\* the database right after Base.metadata.create_all on a new file
Empty(fk) ==
    [boards |-> [i \in {} |-> NoneStr], lists |-> [i \in {} |-> NoneStr],
     cards |-> [i \in {} |-> NoneStr], comments |-> [i \in {} |-> NoneStr],
     activities |-> [i \in {} |-> NoneStr],
     nextId |-> [board |-> 1, list |-> 1, card |-> 1, comment |-> 1, act |-> 1],
     clock |-> 0, fkEnforced |-> fk, positional |-> {},
     last |-> Done("init", "ok", NoneInt, NoneInt, {}, NoneInt)]

\* board 1 with list 1
OneList(fk) == create_list(create_board(Empty(fk), BoardData), ListData(1, 0), "u1")

\* board 1 with list 1, card 1 and comment 1; board 2 with list 2
TwoBoards(fk) ==
    create_list(
        create_board(
            create_comment(
                create_card(OneList(fk), CardData(1, 0, "u1", NoneInt), "u1"),
                CommentData(1, "u1")),
            BoardData),
        ListData(2, 0), "u1")

\* s after n calls update_board(1, BoardUpdate(), "u1"): each writes one activity
\* row and reads a later clock
Edited(s, n) ==
    [s EXCEPT !.activities =
                  [a \in DOMAIN s.activities \cup (s.nextId.act .. (s.nextId.act + n - 1)) |->
                      IF a \in DOMAIN s.activities THEN s.activities[a]
                      ELSE [board_id |-> 1, user_id |-> "u1",
                            activity_type |-> "board_updated",
                            description |-> <<"Updated board", s.boards[1].name>>,
                            created_at |-> s.clock + (a - s.nextId.act)]],
              !.nextId = [@ EXCEPT !.act = @ + n],
              !.clock = @ + n]

\* board 1 with more activity rows than the endpoint lets a page hold
Busy(fk) == Edited(create_board(Empty(fk), BoardData), MaxLimit)

\* databases left by earlier runs of the service
Seeds(fk) ==
    {[s EXCEPT !.last = Done("init", "ok", NoneInt, NoneInt, {}, NoneInt)] :
        s \in {Empty(fk), OneList(fk), TwoBoards(fk), Busy(fk)}}

Init ==
    \E fk \in BOOLEAN : \E s \in Seeds(fk) :
        /\ boards = s.boards
        /\ lists = s.lists
        /\ cards = s.cards
        /\ comments = s.comments
        /\ activities = s.activities
        /\ nextId = s.nextId
        /\ clock = s.clock
        /\ fkEnforced = s.fkEnforced
        /\ positional = s.positional
        /\ last = s.last
        /\ ops = 0
        /\ tx = [run |-> [p \in Sessions |-> Idle], counted |-> <<>>]

\* ------------------------------------------------------------------ Next
\* one call of an operation: the database becomes what the operation returns
Call(r) ==
    /\ ops < MaxOps
    /\ ops' = ops + 1
    /\ boards' = r.boards
    /\ lists' = r.lists
    /\ cards' = r.cards
    /\ comments' = r.comments
    /\ activities' = r.activities
    /\ nextId' = r.nextId
    /\ clock' = r.clock
    /\ fkEnforced' = r.fkEnforced
    /\ positional' = r.positional
    /\ last' = r.last
    /\ UNCHANGED tx

CreateBoard == \E d \in BoardCreates : Call(create_board(State, d))
UpdateBoard == \E b \in IdsOf("board"), u \in BoardUpdates, who \in Actors :
                   Call(update_board(State, b, u, who))
DeleteBoard == \E b \in IdsOf("board") : Call(delete_board(State, b))
CreateList  == \E d \in ListCreates, who \in Actors : Call(create_list(State, d, who))
UpdateList  == \E l \in IdsOf("list"), u \in ListUpdates, who \in Actors :
                   Call(update_list(State, l, u, who))
DeleteList  == \E l \in IdsOf("list") : Call(delete_list(State, l))
CreateCard  == \E d \in CardCreates, who \in Actors : Call(create_card(State, d, who))
UpdateCard  == \E c \in IdsOf("card"), u \in CardUpdates, who \in Actors :
                   Call(update_card(State, c, u, who))
DeleteCard  == \E c \in IdsOf("card") : Call(delete_card(State, c))
CreateComment == \E d \in CommentCreates : Call(create_comment(State, d))
DeleteComment == \E m \in IdsOf("comment") : Call(delete_comment(State, m))
GetBoard    == \E b \in IdsOf("board") : Call(get_board(State, b))
GetList     == \E l \in IdsOf("list") : Call(get_list(State, l))
GetCard     == \E c \in IdsOf("card") : Call(get_card(State, c))
GetCardsByUser == \E u \in Users : Call(get_cards_by_user(State, u))
GetBoardActivities == \E b \in IdsOf("board"), p \in Pages :
                          Call(get_board_activities(State, b, p[1], p[2]))

Next ==
    \/ CreateBoard \/ UpdateBoard \/ DeleteBoard
    \/ CreateList \/ UpdateList \/ DeleteList
    \/ CreateCard \/ UpdateCard \/ DeleteCard
    \/ CreateComment \/ DeleteComment
    \/ GetBoard \/ GetList \/ GetCard \/ GetCardsByUser \/ GetBoardActivities

Spec == Init /\ [][Next]_vars

\* ------------------------------------------------------------------ sessions
\* The same operations with the steps of get_session apart, for requests served at
\* the same time. Each session has a transaction of its own: what it flushes is
\* seen by no other session until session.commit(), and its queries read what is
\* committed (the isolation both engines give).

\* results of an operation that raises or returns before it writes anything
Unwritten == {"None", "False", "ValueError"}

\* AfterFlush on a connection in autocommit mode: the flushed entity rows are
\* committed at once
AfterFlushAutocommit(s, r) ==
    [s EXCEPT !.boards = r.boards, !.lists = r.lists, !.cards = r.cards,
              !.comments = r.comments]

\* the committed database after session.flush() of a session that computed r from
\* s: the INSERT / UPDATE is inside the open transaction
AfterFlush(s, r) == s

\* session.commit(): the rows the transaction inserted, and the columns it
\* changed, are written over the table as committed by then
Merge(cur, base, res) ==
    [i \in DOMAIN cur \cup (DOMAIN res \ DOMAIN base) |->
        IF i \notin DOMAIN res THEN cur[i]
        ELSE IF i \notin DOMAIN base \/ i \notin DOMAIN cur THEN res[i]
        ELSE [f \in DOMAIN cur[i] |->
                 IF res[i][f] # base[i][f] THEN res[i][f] ELSE cur[i][f]]]

\* session p enters get_session and runs an operation up to session.flush():
\* r is the operation computed from the committed database, seen the sibling
\* lists a create_list counted
Begin(p, r, seen) ==
    /\ tx.run[p].phase = "idle"
    /\ ops < MaxOps
    /\ ops' = ops + 1
    /\ nextId' = r.nextId
    /\ clock' = r.clock
    /\ IF r.last.res \in Unwritten
       THEN /\ last' = r.last
            /\ UNCHANGED <<store, fkEnforced, positional, tx>>
       ELSE /\ boards' = AfterFlush(State, r).boards
            /\ lists' = AfterFlush(State, r).lists
            /\ cards' = AfterFlush(State, r).cards
            /\ comments' = AfterFlush(State, r).comments
            /\ tx' = [tx EXCEPT !.run[p] = [phase |-> "flushed", base |-> State,
                                            r |-> r, seen |-> seen]]
            /\ UNCHANGED <<activities, fkEnforced, positional, last>>

TxCreateBoard(p) == \E d \in BoardCreates : Begin(p, create_board(State, d), {})
TxCreateList(p) ==
    \E b \in IdsOf("board"), who \in Actors :
        Begin(p, create_list(State, ListData(b, 0), who), ListsOfBoard(lists, b))
TxCreateCard(p) ==
    \E l \in IdsOf("list"), who \in Actors :
        Begin(p, create_card(State, CardData(l, 0, "u1", NoneInt), who), {})
TxUpdateCard(p) ==
    \E c \in IdsOf("card"), who \in Actors :
        \E u \in {[title |-> "n2"], [status |-> NoneStr]}
                  \cup {[list_id |-> l] : l \in IdsOf("list")} :
            Begin(p, update_card(State, c, u, who), {})
TxCreateComment(p) == \E d \in CommentCreates : Begin(p, create_comment(State, d), {})

\* the statements between session.flush() and the end of the with block: the
\* flush or lst.board_id raises, and get_session rolls back, or _log_activity adds
\* the activity row to the session
TxLog(p) ==
    /\ tx.run[p].phase = "flushed"
    /\ IF tx.run[p].r.last.res = "error"
       THEN /\ last' = tx.run[p].r.last
            /\ tx' = [tx EXCEPT !.run[p] = Idle]
       ELSE /\ tx' = [tx EXCEPT !.run[p].phase = "logged"]
            /\ UNCHANGED last
    /\ UNCHANGED <<store, nextId, clock, fkEnforced, positional, ops>>

\* session.commit() at the end of get_session
TxCommit(p) ==
    LET t == tx.run[p]
    IN  /\ t.phase = "logged"
        /\ boards' = Merge(boards, t.base.boards, t.r.boards)
        /\ lists' = Merge(lists, t.base.lists, t.r.lists)
        /\ cards' = Merge(cards, t.base.cards, t.r.cards)
        /\ comments' = Merge(comments, t.base.comments, t.r.comments)
        /\ activities' = Merge(activities, t.base.activities, t.r.activities)
        /\ positional' = positional \cup t.r.positional
        /\ last' = t.r.last
        /\ tx' = [run |-> [tx.run EXCEPT ![p] = Idle],
                  counted |-> IF t.r.last.op = "create_list"
                              THEN Insert(tx.counted, t.r.last.id,
                                          [seen |-> t.seen,
                                           before |-> ListsOfBoard(lists,
                                                          t.r.last.arg)])
                              ELSE tx.counted]
        /\ UNCHANGED <<nextId, clock, fkEnforced, ops>>

NextTx ==
    \E p \in Sessions :
        \/ TxCreateBoard(p) \/ TxCreateList(p) \/ TxCreateCard(p)
        \/ TxUpdateCard(p) \/ TxCreateComment(p)
        \/ TxLog(p) \/ TxCommit(p)

SpecTx == Init /\ [][NextTx]_vars

\* ------------------------------------------------------------------ claims
\* operations that write an activity row when they succeed
LoggedOps == {"create_board", "update_board", "create_list", "update_list",
              "create_card", "update_card", "create_comment"}

\* a step in which operation op returned res
Returned(op, res) == last'.op = op /\ last'.res = res

\* the board the successful mutation of this step is scoped to, told from the call
\* and the database before it: the board itself, the board named by or owning the
\* list, the board of the list that holds the card
ScopeBoard ==
    CASE last'.op \in {"create_board", "update_board"} -> last'.id
      [] last'.op = "create_list"    -> last'.arg
      [] last'.op = "update_list"    -> lists[last'.id].board_id
      [] last'.op = "create_card"    -> lists[last'.arg].board_id
      [] last'.op = "update_card"    -> lists[cards[last'.id].list_id].board_id
      [] last'.op = "create_comment" -> lists[cards[last'.arg].list_id].board_id

\* every board id a row can name
BoardIdsAfter == 0 .. nextId'.board

NumActs(as, b) == Cardinality(ActsOfBoard(as, b))

\* C1: every successful create_board, update_board, create_list, update_list,
\* create_card, update_card and create_comment adds exactly one ActivityLog row to
\* the board it is scoped to and leaves the row count of every other board as it was.
C1_OneActivityPerMutation ==
    [][(last'.op \in LoggedOps /\ last'.res = "ok") =>
          \A b \in BoardIdsAfter :
              NumActs(activities', b) =
                  NumActs(activities, b) + (IF b = ScopeBoard THEN 1 ELSE 0)]_vars

\* C1 witness: a card was moved to a list of another board, and the row went to
\* the board it came from
C1_Witness ==
    /\ last.op = "update_card" /\ last.res = "ok" /\ "list_id" \in last.sup
    /\ Found(cards, last.id) /\ Found(lists, cards[last.id].list_id)
    /\ Found(boards, lists[cards[last.id].list_id].board_id)
    /\ Found(boards, activities[nextId.act - 1].board_id)
    /\ activities[nextId.act - 1].board_id # lists[cards[last.id].list_id].board_id

\* C2: after a successful delete_board(b) no List of b, no Card of those lists, no
\* Comment on those cards and no ActivityLog row of b is left, and get_board(b)
\* finds nothing.
C2_DeleteBoardCascades ==
    [][Returned("delete_board", "True") =>
          LET b  == last'.id
              ls == ListsOfBoard(lists, b)
              cs == {c \in DOMAIN cards : cards[c].list_id \in ls}
              ms == {m \in DOMAIN comments : comments[m].card_id \in cs}
          IN  /\ ListsOfBoard(lists', b) = {}
              /\ ls \cap DOMAIN lists' = {}
              /\ cs \cap DOMAIN cards' = {}
              /\ \A c \in DOMAIN cards' : cards'[c].list_id \notin ls
              /\ ms \cap DOMAIN comments' = {}
              /\ \A m \in DOMAIN comments' : comments'[m].card_id \notin cs
              /\ ActsOfBoard(activities', b) = {}
              /\ BoardResult(boards', b) = "None"]_vars

\* C2 witness: the first operation deleted a board that had a list, a card, a
\* comment and activity rows, next to a board that stays
C2_Witness ==
    /\ ops = 1 /\ last.op = "delete_board" /\ last.res = "True"
    /\ nextId.comment > 1 /\ DOMAIN comments = {} /\ DOMAIN cards = {}
    /\ DOMAIN boards # {} /\ DOMAIN activities # {}

\* C3: in every reachable state every List names a Board of the store, every Card a
\* List of the store and every Comment a Card of the store.
C3_ReferentialIntegrity ==
    /\ \A l \in DOMAIN lists : lists[l].board_id \in DOMAIN boards
    /\ \A c \in DOMAIN cards : cards[c].list_id \in DOMAIN lists
    /\ \A m \in DOMAIN comments : comments[m].card_id \in DOMAIN cards

\* C4: create_list naming no Board of the store fails with an error and writes
\* neither a List nor an ActivityLog row.
C4_CreateListValidatesBoard ==
    [][(last'.op = "create_list" /\ last'.arg \notin DOMAIN boards) =>
          (last'.res # "ok" /\ store' = store)]_vars

\* C5: create_card naming no List, and create_comment naming no Card, fail with the
\* not-found error (ValueError) and leave the store as it was.
C5_MissingParentRejected ==
    [][(\/ last'.op = "create_card" /\ last'.arg \notin DOMAIN lists
        \/ last'.op = "create_comment" /\ last'.arg \notin DOMAIN cards) =>
          (last'.res = "ValueError" /\ store' = store /\ nextId' = nextId)]_vars

\* C5 witness: a comment on a card that was deleted is refused
C5_Witness ==
    /\ last.op = "create_comment" /\ last.res = "ValueError"
    /\ last.arg \in 1 .. (nextId.card - 1) /\ ~Found(cards, last.arg)

\* C6: a successful update_card writes exactly one activity row, of type
\* card_moved when list_id is supplied, else card_assigned when assigned_to is
\* supplied, else card_updated.
C6_CardActivityClassified ==
    [][Returned("update_card", "ok") =>
          /\ DOMAIN activities' = DOMAIN activities \cup {nextId.act}
          /\ nextId.act \notin DOMAIN activities
          /\ \A a \in DOMAIN activities : activities'[a] = activities[a]
          /\ activities'[nextId.act].activity_type =
                 (IF "list_id" \in last'.sup THEN "card_moved"
                  ELSE IF "assigned_to" \in last'.sup THEN "card_assigned"
                  ELSE "card_updated")]_vars

\* C6 witness: an update supplying both list_id and assigned_to succeeded
C6_Witness ==
    /\ last.op = "update_card" /\ last.res = "ok"
    /\ {"list_id", "assigned_to"} \subseteq last.sup
    /\ activities[nextId.act - 1].activity_type = "card_moved"

\* lists of board b created before list l
OlderSiblings(b, l) == {m \in ListsOfBoard(lists, b) : m < l}

\* C7: create_list and create_card store the number of siblings when the position is
\* absent or 0 and the supplied position otherwise; so the lists of a board that were
\* all created without a position, none deleted or repositioned, stand at 0, 1, ...,
\* k-1 in creation order.
C7_AppendPosition ==
    /\ [][/\ Returned("create_list", "ok") =>
               lists'[last'.id].position =
                   (IF last'.pos = 0
                    THEN Cardinality(ListsOfBoard(lists, last'.arg))
                    ELSE last'.pos)
          /\ Returned("create_card", "ok") =>
               cards'[last'.id].position =
                   (IF last'.pos = 0
                    THEN Cardinality(CardsOfList(cards, last'.arg))
                    ELSE last'.pos)]_vars
    /\ [](\A l \in DOMAIN lists :
              lists[l].board_id \notin positional =>
                  lists[l].position =
                      Cardinality(OlderSiblings(lists[l].board_id, l)))

\* C7 witness: three lists created in a row without a position on one board
C7_Witness ==
    \E b \in DOMAIN boards :
        /\ b \notin positional
        /\ {lists[l].position : l \in ListsOfBoard(lists, b)} = {0, 1, 2}
        /\ last.op = "create_list" /\ last.pos = 0

\* C8 as claimed: no two Lists of one board ever share a position.
C8_UniquePositions ==
    \A l, m \in DOMAIN lists :
        (l # m /\ lists[l].board_id = lists[m].board_id) =>
            lists[l].position # lists[m].position

\* C8 as amended: positions are distinct within a board as long as its lists were
\* all created without a position and none was deleted or given a position.
C8_UniqueWhileAppended ==
    \A l, m \in DOMAIN lists :
        (/\ l # m
         /\ lists[l].board_id = lists[m].board_id
         /\ lists[l].board_id \notin positional) =>
            lists[l].position # lists[m].position

\* C8 witness: a board that only ever had lists appended holds two of them
C8_Witness ==
    \E b \in DOMAIN boards :
        b \notin positional /\ Cardinality(ListsOfBoard(lists, b)) = 2

\* rows of a table other than row id are as they were
OthersSame(before, after, id) ==
    /\ DOMAIN after = DOMAIN before
    /\ \A i \in DOMAIN before \ {id} : after[i] = before[i]

\* the fields of row id that the update did not supply are as they were
Untouched(before, after, id, supplied) ==
    \A f \in (DOMAIN before[id]) \ (supplied \cup {"updated_at"}) :
        after[id][f] = before[id][f]

\* no activity row that was there has changed or gone
ActsKept == \A a \in DOMAIN activities :
                a \in DOMAIN activities' /\ activities'[a] = activities[a]

\* C9: update_board, update_list and update_card change no field of the target
\* other than the supplied ones and updated_at, and no field of any other record.
C9_PartialUpdate ==
    [][/\ Returned("update_board", "ok") =>
            /\ Untouched(boards, boards', last'.id, last'.sup)
            /\ OthersSame(boards, boards', last'.id)
            /\ <<lists, cards, comments>>' = <<lists, cards, comments>> /\ ActsKept
       /\ Returned("update_list", "ok") =>
            /\ Untouched(lists, lists', last'.id, last'.sup)
            /\ OthersSame(lists, lists', last'.id)
            /\ <<boards, cards, comments>>' = <<boards, cards, comments>> /\ ActsKept
       /\ Returned("update_card", "ok") =>
            /\ Untouched(cards, cards', last'.id, last'.sup)
            /\ OthersSame(cards, cards', last'.id)
            /\ <<boards, lists, comments>>' = <<boards, lists, comments>> /\ ActsKept]_vars

\* C9 witness: an archived, renamed board was given a description and kept its
\* name, colour and archived flag
C9_Witness ==
    /\ last.op = "update_board" /\ last.res = "ok" /\ last.sup = {"description"}
    /\ boards[last.id].description = "d2" /\ boards[last.id].name = "n2"
    /\ boards[last.id].is_archived /\ boards[last.id].color = "c1"

\* C10: update_* and delete_* on an id that names no row return None / False and
\* leave the store as it was, with no new activity row.
C10_NotFoundChangesNothing ==
    [][/\ (last'.op = "update_board" /\ last'.id \notin DOMAIN boards) =>
              (last'.res = "None" /\ store' = store /\ nextId' = nextId)
       /\ (last'.op = "update_list" /\ last'.id \notin DOMAIN lists) =>
              (last'.res = "None" /\ store' = store /\ nextId' = nextId)
       /\ (last'.op = "update_card" /\ last'.id \notin DOMAIN cards) =>
              (last'.res = "None" /\ store' = store /\ nextId' = nextId)
       /\ (last'.op = "delete_board" /\ last'.id \notin DOMAIN boards) =>
              (last'.res = "False" /\ store' = store)
       /\ (last'.op = "delete_list" /\ last'.id \notin DOMAIN lists) =>
              (last'.res = "False" /\ store' = store)
       /\ (last'.op = "delete_card" /\ last'.id \notin DOMAIN cards) =>
              (last'.res = "False" /\ store' = store)
       /\ (last'.op = "delete_comment" /\ last'.id \notin DOMAIN comments) =>
              (last'.res = "False" /\ store' = store)]_vars

\* C10 witness: an update of a card that was deleted returned None
C10_Witness ==
    /\ last.op = "update_card" /\ last.res = "None"
    /\ last.id \in 1 .. (nextId.card - 1) /\ DOMAIN activities # {}

\* ------------------------------------------------------------------ C11
\* rows i < j of a result are in the order "due date ascending, missing due dates
\* last, creation time ascending among equal or missing due dates"
DueOrdered(a, b) ==
    /\ a.due_date = NoneInt => b.due_date = NoneInt
    /\ (a.due_date # NoneInt /\ b.due_date # NoneInt) => a.due_date <= b.due_date
    /\ a.due_date = b.due_date => a.created_at <= b.created_at

\* C11: get_cards_by_user(u) returns exactly the cards whose assigned_to is u, each
\* once, every card with a due date before every card without one, the cards with a
\* due date in ascending due-date order, and cards with equal or missing due dates
\* in ascending creation-time order.
C11_CardsByUserOrdered ==
    last.op = "get_cards_by_user" =>
        /\ {last.rows[i] : i \in 1 .. Len(last.rows)}
               = {c \in DOMAIN cards : cards[c].assigned_to = last.user}
        /\ Len(last.rows) = Cardinality({c \in DOMAIN cards : cards[c].assigned_to = last.user})
        /\ \A i, j \in 1 .. Len(last.rows) :
               i < j => DueOrdered(cards[last.rows[i]], cards[last.rows[j]])

\* ------------------------------------------------------------------ C13
\* rows is the page of board b that skips the offset newest activity rows and holds
\* the next limit: row i has exactly offset + i - 1 newer rows of b before it
PageOf(rows, b, limit, offset) ==
    LET mine == ActsOfBoard(activities, b)
        rest == IF Cardinality(mine) > offset THEN Cardinality(mine) - offset ELSE 0
    IN  /\ Len(rows) = IF limit < rest THEN limit ELSE rest
        /\ \A i \in 1 .. Len(rows) :
               /\ rows[i] \in mine
               /\ Cardinality({a \in mine : activities[a].created_at
                                                > activities[rows[i]].created_at})
                      = offset + i - 1

\* the limit after a check of the range [1, MaxLimit]
Checked(limit) == IF limit < 1 THEN 1 ELSE IF limit > MaxLimit THEN MaxLimit ELSE limit

\* C13 (as claimed): get_board_activities itself enforces limit in [1, 100] and
\* offset >= 0 for any values passed to it: a call with a limit outside the range is
\* refused or served with a limit inside it, so it never returns more than 100 rows;
\* the rows are those of the board, newest first, after the first offset rows.
C13_StoreEnforcesRange ==
    last.op = "get_board_activities" =>
        /\ Len(last.rows) <= MaxLimit
        /\ \/ last.res # "ok" /\ last.page[1] \notin 1 .. MaxLimit
           \/ PageOf(last.rows, last.id, Checked(last.page[1]), last.page[2])

\* C13 (amended): get_board_activities checks neither limit nor offset; for
\* limit >= 0 and offset >= 0 passed to it, it returns the rows of the board, newest
\* first, after the first offset rows, and as many as limit of them: none when
\* limit is 0, and more than 100 when limit is above 100 and the board has them.
C13_PageAsAsked ==
    last.op = "get_board_activities" =>
        /\ last.res = "ok"
        /\ PageOf(last.rows, last.id, last.page[1], last.page[2])

C13_Witness ==
    /\ last.op = "get_board_activities"
    /\ last.page[1] > MaxLimit
    /\ Len(last.rows) > MaxLimit
    /\ Len(last.rows) = Cardinality(ActsOfBoard(activities, last.id))

\* ------------------------------------------------------------------ C14
\* every row of table before that is still in table after has its created_at
CreatedKept(before, after) ==
    \A i \in DOMAIN before \cap DOMAIN after : after[i].created_at = before[i].created_at

\* row after an update of row before: same creation time, and a modification time
\* not earlier than the one before or than the creation time
Stamped(before, after) ==
    /\ after.created_at = before.created_at
    /\ after.updated_at >= before.updated_at
    /\ after.updated_at >= after.created_at

\* C14: after a successful update_board, update_list or update_card the record's
\* created_at is the one it was created with and its updated_at is not earlier than
\* its previous updated_at nor than its created_at; no operation changes the
\* created_at of an existing record of any table.
C14_Timestamps ==
    [][/\ CreatedKept(boards, boards') /\ CreatedKept(lists, lists')
       /\ CreatedKept(cards, cards') /\ CreatedKept(comments, comments')
       /\ CreatedKept(activities, activities')
       /\ Returned("update_board", "ok") => Stamped(boards[last'.id], boards'[last'.id])
       /\ Returned("update_list", "ok") => Stamped(lists[last'.id], lists'[last'.id])
       /\ Returned("update_card", "ok") => Stamped(cards[last'.id], cards'[last'.id])]_vars

\* a card was created, then updated: its updated_at moved on, its created_at did not
C14_Witness ==
    /\ last.op = "update_card" /\ last.res = "ok"
    /\ cards[last.id].updated_at > cards[last.id].created_at
    /\ cards[last.id].created_at = clock - 2

\* ------------------------------------------------------------------ C15
\* operations that write no activity row
UnloggedOps == {"delete_list", "delete_card", "delete_comment", "get_board",
                "get_list", "get_card", "get_cards_by_user", "get_board_activities"}

\* C15: delete_list, delete_card, delete_comment and every get_* read append no
\* ActivityLog row: the table of activity rows is the same after as before.
C15_NoActivityFromDeleteOrRead ==
    [][last'.op \in UnloggedOps => activities' = activities]_vars

\* a card was deleted from a database whose log holds the row of a card creation
C15_Witness ==
    /\ last.op = "delete_card" /\ last.res = "True"
    /\ last.id \notin DOMAIN cards
    /\ \E a \in DOMAIN activities : activities[a].activity_type = "card_created"
    /\ \A a \in DOMAIN activities : activities[a].activity_type # "card_deleted"

\* ------------------------------------------------------------------ C16
\* table after is table before without the rows gone, every other row as it was
Without(before, after, gone) ==
    /\ DOMAIN after = DOMAIN before \ gone
    /\ \A i \in DOMAIN after : after[i] = before[i]

\* C16: a successful delete_list(l) removes exactly List l, every Card whose list_id
\* is l and every Comment on those cards; a successful delete_card(c) removes
\* exactly Card c and every Comment whose card_id is c; every other Board, List,
\* Card and Comment stays, with its fields unchanged.
C16_DeleteRemovesExactly ==
    [][/\ Returned("delete_list", "True") =>
              LET cs == CardsOfList(cards, last'.id)
                  ms == {m \in DOMAIN comments : comments[m].card_id \in cs}
              IN  /\ last'.id \in DOMAIN lists
                  /\ boards' = boards
                  /\ Without(lists, lists', {last'.id})
                  /\ Without(cards, cards', cs)
                  /\ Without(comments, comments', ms)
       /\ Returned("delete_card", "True") =>
              /\ last'.id \in DOMAIN cards
              /\ boards' = boards /\ lists' = lists
              /\ Without(cards, cards', {last'.id})
              /\ Without(comments, comments', CommentsOfCard(comments, last'.id))]_vars

\* one delete_list took a list, its card and the card's comment; the other list stayed
C16_Witness ==
    /\ ops = 1 /\ last.op = "delete_list" /\ last.res = "True"
    /\ nextId.card = 2 /\ nextId.comment = 2
    /\ DOMAIN cards = {} /\ DOMAIN comments = {}
    /\ DOMAIN lists = {2} /\ DOMAIN boards = {1, 2}

\* ------------------------------------------------------------------ C17
\* a row of table before that is still in table after has another position only if
\* the step is a call of op on that row that supplied position
PositionsKept(before, after, op) ==
    \A i \in DOMAIN before \cap DOMAIN after :
        after[i].position # before[i].position =>
            /\ last'.op = op /\ last'.id = i
            /\ "position" \in last'.sup

\* C17: positions are never renumbered implicitly: delete_list, delete_card,
\* create_list, create_card and a card move leave the position of every other
\* existing List and Card unchanged (a moved card keeps its own position too);
\* the position of a List or Card changes only through an update_list or update_card
\* on that record that supplies position.
C17_NoImplicitRenumbering ==
    [][/\ PositionsKept(lists, lists', "update_list")
       /\ PositionsKept(cards, cards', "update_card")]_vars

\* a list was deleted and the sibling after it kept position 1: the board now has
\* no list at position 0
C17_Witness ==
    /\ last.op = "delete_list" /\ last.res = "True"
    /\ \E l \in DOMAIN lists :
           /\ lists[l].position = 1
           /\ \A m \in ListsOfBoard(lists, lists[l].board_id) : lists[m].position # 0

\* ------------------------------------------------------------------ C18
\* the activity rows this step added
NewActs == DOMAIN activities' \ DOMAIN activities

\* C18: update_card scopes its activity to the board of the list the card belonged
\* to before the update: a successful update, a move to a list of another board
\* included, appends its one row to that board and none to any other board; when
\* the list the card is in cannot be resolved the call fails and writes nothing.
C18_UpdateCardScopedToSource ==
    [][/\ Returned("update_card", "ok") =>
              /\ Found(lists, cards[last'.id].list_id)
              /\ Cardinality(NewActs) = 1
              /\ \A a \in NewActs :
                     activities'[a].board_id = lists[cards[last'.id].list_id].board_id
              /\ \A a \in DOMAIN activities : a \in DOMAIN activities'
       /\ (/\ last'.op = "update_card"
           /\ Found(cards, last'.id)
           /\ ~Found(lists, cards[last'.id].list_id)) =>
              /\ last'.res = "error"
              /\ store' = store]_vars

\* card 1 went from list 1 of board 1 to list 2 of board 2 with a new assignee: the
\* card_moved row is in the log of board 1, the log of board 2 has no row on a card
C18_Witness ==
    /\ last.op = "update_card" /\ last.res = "ok"
    /\ last.sup = {"list_id", "assigned_to"}
    /\ Found(cards, last.id) /\ Found(lists, cards[last.id].list_id)
    /\ LET dest == lists[cards[last.id].list_id].board_id
       IN  /\ activities[nextId.act - 1].activity_type = "card_moved"
           /\ activities[nextId.act - 1].board_id # dest
           /\ Found(boards, dest)
           /\ \A a \in ActsOfBoard(activities, dest) :
                  activities[a].activity_type \in {"board_created", "list_created"}

\* ------------------------------------------------------------------ C19
\* C19: the ActivityLog is append-only: a row's board_id, user_id, activity_type,
\* description and created_at never change, and a row leaves the log only by a
\* successful delete_board of the board it names.
C19_ActivityLogAppendOnly ==
    [][\A a \in DOMAIN activities :
           \/ a \in DOMAIN activities' /\ activities'[a] = activities[a]
           \/ /\ a \notin DOMAIN activities'
              /\ Returned("delete_board", "True")
              /\ last'.id = activities[a].board_id]_vars

\* board 2 was deleted and its rows left the log; the rows of board 1, the row of
\* its card creation among them, are as they were written
C19_Witness ==
    /\ last.op = "delete_board" /\ last.res = "True" /\ last.id = 2
    /\ ActsOfBoard(activities, 2) = {}
    /\ \E a \in ActsOfBoard(activities, 1) :
           /\ activities[a].activity_type = "card_created"
           /\ activities[a].created_at < clock
    /\ nextId.act > Cardinality(DOMAIN activities) + 1

\* ------------------------------------------------------------------ C12
\* this step ends the operation of session p in a failure: it returned or raised
\* before writing, or its transaction was rolled back
Failed(p) ==
    \/ ops' # ops /\ tx'.run[p] = tx.run[p] /\ last'.res \in Unwritten
    \/ tx.run[p].phase = "flushed" /\ tx'.run[p].phase = "idle"

\* this step commits the transaction of session p
Committed(p) == tx.run[p].phase = "logged" /\ tx'.run[p].phase = "idle"

\* after this step the committed table holds what the transaction wrote to it:
\* the rows it inserted and the columns it changed
Written(after, base, res) ==
    \A i \in DOMAIN res :
        /\ i \notin DOMAIN base => (i \in DOMAIN after /\ after[i] = res[i])
        /\ i \in DOMAIN base =>
               \A f \in DOMAIN res[i] :
                   res[i][f] # base[i][f] => after[i][f] = res[i][f]

\* C12: every mutating operation is all-or-nothing: a step in which an operation
\* fails (a missing parent, a constraint violation, an error after the flush and
\* before the activity row) leaves the committed store as it was, and every step
\* that changes the committed store is the commit of one operation, which brings
\* its entity write and its one activity row together: no session ever reads the
\* entity without the activity row or the activity row without the entity.
C12_AllOrNothing ==
    [][/\ \A p \in Sessions : Failed(p) => store' = store
       /\ store' # store =>
              \E p \in Sessions :
                  /\ Committed(p)
                  /\ Cardinality(NewActs) = 1
                  /\ \A a \in NewActs : activities'[a] = tx.run[p].r.activities[a]
                  /\ Written(boards', tx.run[p].base.boards, tx.run[p].r.boards)
                  /\ Written(lists', tx.run[p].base.lists, tx.run[p].r.lists)
                  /\ Written(cards', tx.run[p].base.cards, tx.run[p].r.cards)
                  /\ Written(comments', tx.run[p].base.comments,
                             tx.run[p].r.comments)]_vars

\* one session has flushed a comment and added its activity row, neither is
\* committed, while the update of the other session failed at its flush and was
\* rolled back
C12_Witness ==
    \E p, q \in Sessions :
        /\ tx.run[p].phase = "logged"
        /\ tx.run[p].r.last.op = "create_comment"
        /\ tx.run[p].r.last.id \notin DOMAIN comments
        /\ \A a \in DOMAIN tx.run[p].r.activities :
               a \in DOMAIN tx.run[p].base.activities \/ a \notin DOMAIN activities
        /\ tx.run[q].phase = "idle"
        /\ last.op = "update_card" /\ last.res = "error"

\* ------------------------------------------------------------------ C20
\* lists l and m are of one board, both created while sessions overlap
Siblings(l, m) ==
    /\ l # m
    /\ l \in DOMAIN lists /\ m \in DOMAIN lists
    /\ lists[l].board_id = lists[m].board_id

====
